---- MODULE Spec2Model ----
(***************************************************************************)
(* A model of the read-only Polymarket clients of the repository.  Of      *)
(* src/api.py: the price aggregator sum_yes_by_market, its price source    *)
(* get_best_prices, the order-book lookup get_book, the normalizer         *)
(* flatten_tokens_from_simplified, the pager clob_simplified_pages and the *)
(* fetchers list_markets_gamma and get_trades_dataapi.  Of                 *)
(* src/src/polymarket_api.py: PolymarketAPI used as a context manager.  Of *)
(* src/example.py: the fetchers of PolymarketScanner.                      *)
(*                                                                         *)
(* One caller runs one operation at a time.  An operation that talks to    *)
(* the network is cut at its HTTP requests: one action per request, with   *)
(* the service's answer chosen by the environment.                         *)
(*                                                                         *)
(* Python floats are modelled as exact hundredths (Num(45) is 0.45), plus  *)
(* the two special values the code can meet, nan and inf.                  *)
(***************************************************************************)
EXTENDS Integers, Sequences, FiniteSets, TLC

VARIABLES
    pc,          \* where the caller is: "idle", a place in the operation,
                 \* "returned", "raised", or "blocked" on an unanswered request
    op,          \* the operation running
    tokens,      \* sum_yes_by_market: the argument, a list of token rows
    by_market,   \* sum_yes_by_market: the groups, in insertion order
    token_ids,   \* get_best_prices: the argument
    batch_size,  \* get_best_prices: the argument
    i,           \* get_best_prices: the loop index (0-based, as in the code)
    out,         \* get_best_prices: the merged mapping
    requests,    \* the POSTs to /prices of the run: batch and HTTP status
    svc,         \* the price service: its answer for each token id
    body_kind,   \* the price service: the JSON type of its response bodies
    token_id,    \* get_book: the argument
    response,    \* get_book: the response r of the service
    page_json,   \* flatten_tokens_from_simplified: the argument
    ret,         \* the value returned
    exc,         \* the exception raised
    first,       \* the value an earlier get_best_prices call returned
    rows_read,   \* sum_yes_by_market: how many rows the grouping loop has read
    http,        \* the HTTP requests of the run: url and timeout, as sent
    session,     \* PolymarketAPI: its HTTP session
    closes,      \* PolymarketAPI: how many times the session was closed
    calls,       \* PolymarketAPI: the calls made inside the with-block
    max_pages,   \* clob_simplified_pages: the argument
    cursor,      \* clob_simplified_pages: the cursor of the next request
    pages        \* clob_simplified_pages: the pages yielded

\* The state of a PolymarketAPI client, of a run of clob_simplified_pages, and
\* of the operations on prices, books and pages of tokens.
client == <<session, closes, calls>>
pager == <<max_pages, cursor, pages>>
quotes == <<tokens, by_market, token_ids, batch_size, i, out, requests, svc,
            body_kind, token_id, response, page_json, first, rows_read>>

vars == <<pc, op, tokens, by_market, token_ids, batch_size, i, out, requests,
          svc, body_kind, token_id, response, page_json, ret, exc, first,
          rows_read, http, client, pager>>

(***************************************************************************)
(* Bounds of the model.                                                    *)
(***************************************************************************)
MaxRows == 3
MaxIds == 3
MaxBatch == 3
MaxMarkets == 2
MaxTokens == 2
MaxCalls == 2
MaxPages == 3

(***************************************************************************)
(* JSON / Python values.                                                   *)
(***************************************************************************)
None == [t |-> "null"]
Str(s) == [t |-> "str", s |-> s]
Bool(b) == [t |-> "bool", b |-> b]
ListOf(items) == [t |-> "list", items |-> items]
List == ListOf(<< >>)
Dict(m) == [t |-> "dict", m |-> m]

\* Python's truth value of a JSON value: bool(x), `if x`, `not x`.
Truthy(v) ==
    CASE v.t = "null" -> FALSE
      [] v.t = "str"  -> v.s # ""
      [] v.t = "bool" -> v.b
      [] v.t = "list" -> v.items # << >>
      [] v.t = "dict" -> DOMAIN v.m # {}
      [] OTHER        -> TRUE

\* a or b
Or(a, b) == IF Truthy(a) THEN a ELSE b

\* str(x)
PyStr(v) ==
    CASE v.t = "str"  -> v
      [] v.t = "bool" -> Str(IF v.b THEN "True" ELSE "False")
      [] OTHER        -> Str("None")

\* dict.get(key) of a mapping m (a function on the keys it holds).
Get(m, key) == IF key \in DOMAIN m THEN m[key] ELSE None

(***************************************************************************)
(* Floats.                                                                 *)
(***************************************************************************)
NaN == [k |-> "nan"]
Inf == [k |-> "inf"]
Num(n) == [k |-> "num", n |-> n]

isnan(x) == x.k = "nan"

\* float(s) of a string: the decimal strings of the model, "inf", and text
\* that is no number (ValueError).
ParseFloat(s) ==
    CASE s = "0.45" -> [ok |-> TRUE, v |-> Num(45)]
      [] s = "0.52" -> [ok |-> TRUE, v |-> Num(52)]
      [] s = "inf"  -> [ok |-> TRUE, v |-> Inf]
      [] OTHER      -> [ok |-> FALSE, v |-> NaN]

to_float(x) ==
    IF x.t = "null" THEN NaN
    ELSE IF x.t = "str" /\ ParseFloat(x.s).ok THEN ParseFloat(x.s).v
    ELSE NaN

\* x + y of two floats that are not nan.
FloatAdd(x, y) ==
    IF x.k = "inf" \/ y.k = "inf" THEN Inf ELSE Num(x.n + y.n)

RECURSIVE FloatSum(_)
\* sum(xs) of a list of floats that are not nan, from 0.
FloatSum(xs) ==
    IF xs = << >> THEN Num(0)
    ELSE FloatAdd(FloatSum(SubSeq(xs, 1, Len(xs) - 1)), xs[Len(xs)])

(***************************************************************************)
(* The inputs: token rows, token ids, and the price service.               *)
(***************************************************************************)
TokenIds == {"T1", "T2", "T3"}

Row(cond, tid, closed) ==
    [condition_id |-> cond, token_id |-> tid, closed |-> closed]

\* The (market, token) pairs the rows may list.  T2 and T3 are each listed
\* under two markets.
Listed ==
    { <<"M1", "T1">>, <<"M1", "T2">>, <<"M2", "T2">>, <<"M2", "T3">>,
      <<"M3", "T3">> }

\* Rows that survive the filter of sum_yes_by_market.
OpenRows == { Row(Str(p[1]), Str(p[2]), Bool(FALSE)) : p \in Listed }

\* Rows the filter drops: a closed market, a null or empty token id, a null
\* or empty market id.
DroppedRows ==
    { Row(Str("M1"), Str("T1"), Bool(TRUE)),
      Row(Str("M1"), None, Bool(FALSE)),
      Row(Str("M2"), Str(""), Bool(FALSE)),
      Row(None, Str("T2"), Bool(FALSE)),
      Row(Str(""), Str("T3"), Bool(FALSE)) }

Rows == OpenRows \cup DroppedRows

SeqsUpTo(S, n) == UNION { [1..k -> S] : k \in 0..n }

Absent == [t |-> "absent"]
Sides(m) == Dict(m)

\* What the service may hold for a token id: no entry, or an entry that is
\* null, a list, or a mapping side -> price.
Answers(tid) ==
    CASE tid = "T1" -> { Sides("BUY" :> Str("0.45")), Absent, None }
      [] tid = "T2" -> { Sides("BUY" :> Str("0.52")), Sides("BUY" :> Str("abc")),
                         Sides("BUY" :> Str("inf")) }
      [] OTHER      -> { Sides("BUY" :> Str("0.45")), Sides("BUY" :> None),
                         Sides("SELL" :> Str("0.52")), List }

BodyKinds == {"dict", "null", "list"}
\* The HTTP statuses of the answers to POST /prices.
Statuses == {200, 404, 500}

Range(s) == { s[j] : j \in DOMAIN s }

\* What the service may hold for tid in a run that asks for the ids `asked`.
AnswersIn(tid, asked) == IF tid \in asked THEN Answers(tid) ELSE {Absent}

\* The services a run over the token ids `asked` can tell apart.
Services(asked) ==
    { ("T1" :> a1) @@ ("T2" :> a2) @@ ("T3" :> a3) :
        a1 \in AnswersIn("T1", asked),
        a2 \in AnswersIn("T2", asked),
        a3 \in AnswersIn("T3", asked) }

NoService == [t \in TokenIds |-> Absent]

(***************************************************************************)
(* sum_yes_by_market, lines 173-182: grouping.                             *)
(***************************************************************************)
RECURSIVE IndexOf(_, _, _)
\* The position of the group of market `cond` in bm, from position j on; 0
\* when it has none.
IndexOf(bm, cond, j) ==
    IF j > Len(bm) THEN 0
    ELSE IF bm[j].cond = cond THEN j
    ELSE IndexOf(bm, cond, j + 1)

\* by_market.setdefault(cond, []).append(tid)
SetDefaultAppend(bm, cond, tid) ==
    LET p == IndexOf(bm, cond, 1) IN
    IF p = 0 THEN Append(bm, [cond |-> cond, tids |-> <<tid>>])
    ELSE [bm EXCEPT ![p].tids = Append(@, tid)]

\* The filter without its test of the closed flag.
SurvivesIgnoringClosed(t) ==
    Truthy(t.condition_id) /\ Truthy(t.token_id)

\* if cond and tid and not closed
Survives(t) ==
    Truthy(t.condition_id) /\ Truthy(t.token_id) /\ ~Truthy(t.closed)

\* One turn of the loop over the rows: the groups after the row t.
GroupRow(bm, t) ==
    IF Survives(t)
    THEN SetDefaultAppend(bm, t.condition_id.s, t.token_id.s)
    ELSE bm

RECURSIVE AllTokenIds(_)
\* [tid for lst in by_market.values() for tid in lst]
AllTokenIds(bm) ==
    IF bm = << >> THEN << >>
    ELSE bm[1].tids \o AllTokenIds(Tail(bm))

(***************************************************************************)
(* get_best_prices, lines 125-137.                                         *)
(***************************************************************************)
DefaultBatchSize == 50

\* A list of rows whose surviving token ids need two batches of the default
\* size: a closed row, a full batch of rows of five markets, by turns of T1
\* and of T2, and one row of T3.
ManyRows ==
    << Row(Str("M1"), Str("T1"), Bool(TRUE)) >>
    \o [j \in 1..DefaultBatchSize |->
           LET m == ((j - 1) \div (DefaultBatchSize \div 5)) + 1 IN
           Row(Str(<<"M1", "M2", "M3", "M4", "M5">>[m]),
               Str(IF m % 2 = 1 THEN "T1" ELSE "T2"), Bool(FALSE))]
    \o << Row(Str("M6"), Str("T3"), Bool(FALSE)) >>

Min(a, b) == IF a < b THEN a ELSE b

\* token_ids[i : i + batch_size]
Batch(ids, at, size) == SubSeq(ids, at + 1, Min(at + size, Len(ids)))

\* r.json() of a 200 response to a batch: the service's entries for the
\* token ids of the batch, when the body is a mapping.
ResponseItems(batch) ==
    IF body_kind = "dict"
    THEN { t \in Range(batch) : svc[t] # Absent }
    ELSE {}

\* out = data: the mapping replaced by the last response.
MergeReplacing(o, keys) == [t \in keys |-> svc[t]]

\* for asset_id, sides in data.items(): out[str(asset_id)] = sides
Merge(o, keys) ==
    [t \in DOMAIN o \cup keys |-> IF t \in keys THEN svc[t] ELSE o[t]]

EmptyMap == [t \in {} |-> None]

(***************************************************************************)
(* sum_yes_by_market, lines 185-198: the sums and the ranking.             *)
(***************************************************************************)
\* price_map[tid].get("BUY") raises AttributeError when the entry is no
\* mapping.
LookupRaises(price_map, tid) ==
    tid \in DOMAIN price_map /\ price_map[tid].t # "dict"

Quote(price_map, tid) ==
    IF tid \in DOMAIN price_map THEN Get(price_map[tid].m, "BUY") ELSE None

Asks(price_map, tids) ==
    [j \in 1..Len(tids) |-> to_float(Quote(price_map, tids[j]))]

\* [x for x in asks if ... not math.isnan(x)]
Finite(asks) == SelectSeq(asks, LAMBDA x : ~isnan(x))

\* The sum without the test for an empty list: sum([]) is 0.
MarketSumOfEmptyIsZero(price_map, tids) ==
    FloatSum(Finite(Asks(price_map, tids)))

MarketSum(price_map, tids) ==
    LET finite == Finite(Asks(price_map, tids)) IN
    IF finite # << >> THEN FloatSum(finite) ELSE NaN

\* The results with the quoted tokens counted instead of all tokens.
ResultsCountingQuotes(bm, price_map) ==
    [j \in 1..Len(bm) |->
        <<bm[j].cond, Len(Finite(Asks(price_map, bm[j].tids))),
          MarketSum(price_map, bm[j].tids)>>]

Results(bm, price_map) ==
    [j \in 1..Len(bm) |->
        <<bm[j].cond, Len(bm[j].tids), MarketSum(price_map, bm[j].tids)>>]

AggregateRaises(bm, price_map) ==
    \E j \in 1..Len(bm) : \E k \in 1..Len(bm[j].tids) :
        LookupRaises(price_map, bm[j].tids[k])

\* key=lambda x: (math.inf if math.isnan(x[2]) else x[2])
SortKey(x) == IF isnan(x[3]) THEN Inf ELSE x[3]

\* a < b of two sort keys.
KeyLess(a, b) == a.k = "num" /\ (b.k = "inf" \/ a.n < b.n)

RECURSIVE InsertSortedBeforeEqual(_, _)
\* An insertion that puts x before the elements equal to it: the sort is
\* no longer stable.
InsertSortedBeforeEqual(s, x) ==
    IF s = << >> THEN <<x>>
    ELSE IF ~KeyLess(SortKey(Head(s)), SortKey(x)) THEN <<x>> \o s
    ELSE <<Head(s)>> \o InsertSortedBeforeEqual(Tail(s), x)

RECURSIVE InsertSorted(_, _)
\* x put into the sorted list s after every element that is not greater.
InsertSorted(s, x) ==
    IF s = << >> THEN <<x>>
    ELSE IF KeyLess(SortKey(x), SortKey(Head(s))) THEN <<x>> \o s
    ELSE <<Head(s)>> \o InsertSorted(Tail(s), x)

RECURSIVE SortResults(_)
\* results.sort(key=...): a stable sort.
SortResults(rs) ==
    IF rs = << >> THEN << >>
    ELSE InsertSorted(SortResults(SubSeq(rs, 1, Len(rs) - 1)), rs[Len(rs)])

(***************************************************************************)
(* get_book, lines 107-116.                                                *)
(***************************************************************************)
BookTokenIds == TokenIds \cup {"unknown"}

\* The HTTP statuses of the answers to GET /book.
BookStatuses == {200, 403, 404, 500}

\* Bodies the /book endpoint may send.
BookBodies ==
    { Dict("asset_id" :> Str("T1") @@ "bids" :> List),
      Dict("error" :> Str("No orderbook exists")),
      None }

\* The sentinel as the docstring of get_book words it, without the id.
NotFoundWithoutTokenId(tid) == Dict("error" :> Str("not_found"))

\* {"error": "not_found", "token_id": token_id}
NotFound(tid) == Dict("error" :> Str("not_found") @@ "token_id" :> Str(tid))

(***************************************************************************)
(* flatten_tokens_from_simplified, lines 79-101.                           *)
(***************************************************************************)
\* The fields of a market other than its tokens: the flags may be missing,
\* null, or no booleans.
MarketHeads ==
    { "condition_id" :> Str("M1") @@ "active" :> Bool(TRUE) @@ "closed" :> Bool(FALSE),
      "condition_id" :> Str("M2") @@ "closed" :> Str("archived"),
      "active" :> Bool(FALSE) @@ "closed" :> None }

PageTokens ==
    { "token_id" :> Str("T1") @@ "name" :> Str("Yes"),
      "token_id" :> None @@ "outcome" :> Str("No") }

TokenLists ==
    { ListOf(ts) : ts \in SeqsUpTo(PageTokens, MaxTokens) } \cup {None}

Markets == { h @@ "tokens" :> tl : h \in MarketHeads, tl \in TokenLists }

\* A page with a list of markets, or with no "data" key.
Pages ==
    { "data" :> ListOf(ms) : ms \in SeqsUpTo(Markets, MaxMarkets) }
        \cup {EmptyMap}

FlatRow(m, t) ==
    [condition_id |-> Get(m, "condition_id"),
     active       |-> Bool(Truthy(Get(m, "active"))),
     closed       |-> Bool(Truthy(Get(m, "closed"))),
     token_id     |-> IF Get(t, "token_id") # None
                      THEN PyStr(Get(t, "token_id")) ELSE None,
     label        |-> Or(Or(Get(t, "name"), Get(t, "outcome")), Get(t, "title"))]

\* tokens = m.get("tokens") or []
TokensOf(m) ==
    IF Truthy(Get(m, "tokens")) THEN Get(m, "tokens").items ELSE << >>

\* The rows of the tokens that have an id only.
MarketRowsWithIdOnly(m) ==
    LET withId == SelectSeq(TokensOf(m), LAMBDA t : Get(t, "token_id") # None)
    IN [k \in 1..Len(withId) |-> FlatRow(m, withId[k])]

\* The rows of one market: one per token, in order.
MarketRows(m) ==
    [k \in 1..Len(TokensOf(m)) |-> FlatRow(m, TokensOf(m)[k])]

RECURSIVE FlattenData(_)
FlattenData(data) ==
    IF data = << >> THEN << >>
    ELSE FlattenData(SubSeq(data, 1, Len(data) - 1)) \o MarketRows(data[Len(data)])

\* data = page_json.get("data", [])
flatten_tokens_from_simplified(page) ==
    FlattenData(IF "data" \in DOMAIN page THEN page["data"].items ELSE << >>)

(***************************************************************************)
(* The HTTP requests: what requests.get, requests.post and session.get are *)
(* given, and what may come back.                                          *)
(***************************************************************************)
\* timeout=20, in seconds.
RequestTimeout == 20

\* The timeout argument of a request: a number of seconds, or none, which
\* lets the request wait for its answer without limit.
Seconds(n) == [set |-> TRUE, s |-> n]
NoTimeout == [set |-> FALSE]

Request(url, timeout) == [url |-> url, timeout |-> timeout]

\* What a request meets: an answer with a 2xx status, an answer with an error
\* status, or a server that accepts the request and never answers.
Outcomes == {"ok", "error", "silent"}

\* The JSON body of an answer that lists markets.
MarketsBody == ListOf(<<Str("M1")>>)

\* The methods of PolymarketAPI that fetch, and their urls.
ApiMethods == {"get_markets", "get_market"}
ApiUrl(f) == IF f = "get_markets" THEN "/markets" ELSE "/markets/{condition_id}"

\* The values the server may give next_cursor in a page: the key absent,
\* null, the empty string, or a cursor.
Cursors == {Absent, None, Str(""), Str("MA=="), Str("LTE=")}

\* A page of /simplified-markets with next_cursor c.
Page(c) ==
    IF c = Absent THEN Dict("data" :> List)
    ELSE Dict(("data" :> List) @@ ("next_cursor" :> c))

\* list_simplified_markets, lines 60-62: the query parameters.
CursorParams(next_cursor) ==
    IF Truthy(next_cursor) THEN ("next_cursor" :> next_cursor) ELSE EmptyMap

(***************************************************************************)
(* The state machine.                                                      *)
(***************************************************************************)
NoValue == [kind |-> "none"]
Value(v) == [kind |-> "value", v |-> v]

Init ==
    /\ pc = "idle"
    /\ op = "none"
    /\ tokens = << >>
    /\ by_market = << >>
    /\ token_ids = << >>
    /\ batch_size = DefaultBatchSize
    /\ i = 0
    /\ out = EmptyMap
    /\ requests = << >>
    /\ svc = NoService
    /\ body_kind = "dict"
    /\ token_id = ""
    /\ response = NoValue
    /\ page_json = EmptyMap
    /\ ret = NoValue
    /\ exc = "none"
    /\ first = NoValue
    /\ rows_read = 0
    /\ http = << >>
    /\ session = "none"
    /\ closes = 0
    /\ calls = << >>
    /\ max_pages = 0
    /\ cursor = None
    /\ pages = << >>

\* The environment of a run that asks for the token ids `asked`.
ChooseService(asked) ==
    \E bk \in BodyKinds : \E s \in Services(asked) :
        /\ bk # "dict" => s = NoService
        /\ body_kind' = bk
        /\ svc' = s

\* sum_yes_by_market(tokens) is called.
Call_sum_yes_by_market ==
    /\ pc = "idle"
    /\ \E ts \in SeqsUpTo(Rows, MaxRows) \cup {ManyRows} : tokens' = ts
    /\ op' = "sum_yes_by_market"
    /\ by_market' = << >>
    /\ rows_read' = 0
    /\ pc' = "group"
    /\ UNCHANGED <<token_ids, batch_size, i, out, requests, svc, body_kind,
                   token_id, response, page_json, ret, exc, first, http,
                   client, pager>>

\* sum_yes_by_market, lines 173-180: one turn of the loop over the rows.
Group_sum_yes_by_market ==
    /\ pc = "group"
    /\ rows_read < Len(tokens)
    /\ by_market' = GroupRow(by_market, tokens[rows_read + 1])
    /\ rows_read' = rows_read + 1
    /\ UNCHANGED <<pc, op, tokens, token_ids, batch_size, i, out, requests, svc,
                   body_kind, token_id, response, page_json, ret, exc, first,
                   http, client, pager>>

\* sum_yes_by_market, lines 182-183: the rows are read; get_best_prices is
\* called with the token ids of all groups and the default batch size.
Price_sum_yes_by_market ==
    /\ pc = "group"
    /\ rows_read = Len(tokens)
    /\ token_ids' = AllTokenIds(by_market)
    /\ ChooseService(Range(AllTokenIds(by_market)))
    /\ batch_size' = DefaultBatchSize
    /\ i' = 0
    /\ out' = EmptyMap
    /\ pc' = "prices"
    /\ UNCHANGED <<op, tokens, by_market, requests, token_id, response,
                   page_json, ret, exc, first, rows_read, http, client, pager>>

\* get_best_prices(token_ids, "BUY", batch_size) called directly.
Call_get_best_prices ==
    /\ pc = "idle"
    /\ \E ids \in SeqsUpTo(TokenIds, MaxIds) :
        /\ token_ids' = ids
        /\ ChooseService(Range(ids))
    /\ \E bs \in 1..MaxBatch : batch_size' = bs
    /\ op' = "get_best_prices"
    /\ i' = 0
    /\ out' = EmptyMap
    /\ pc' = "prices"
    /\ UNCHANGED <<tokens, by_market, requests, token_id, response, page_json,
                   ret, exc, first, rows_read, http, client, pager>>

\* The loop going on to the next batch after a failed request.
PricesRequestSkippingFailures ==
    /\ pc = "prices"
    /\ i < Len(token_ids)
    /\ LET batch == Batch(token_ids, i, batch_size) IN
        \E status \in Statuses :
            /\ requests' = Append(requests, [batch |-> batch, status |-> status])
            /\ http' = Append(http, Request("/prices", Seconds(RequestTimeout)))
            /\ out' = IF status >= 400 THEN out
                      ELSE Merge(out, ResponseItems(batch))
            /\ i' = i + batch_size
    /\ UNCHANGED <<pc, exc, op, tokens, by_market, token_ids, batch_size, svc,
                   body_kind, token_id, response, page_json, ret, first,
                   rows_read, client, pager>>

\* One turn of the loop of get_best_prices: POST /prices for one batch.
PricesRequest ==
    /\ pc = "prices"
    /\ i < Len(token_ids)
    /\ LET batch == Batch(token_ids, i, batch_size) IN
        \E status \in Statuses :
            /\ requests' = Append(requests, [batch |-> batch, status |-> status])
            /\ http' = Append(http, Request("/prices", Seconds(RequestTimeout)))
            /\ IF status >= 400
               THEN /\ pc' = "raised"
                    /\ exc' = "HTTPError"
                    /\ UNCHANGED <<i, out>>
               ELSE /\ out' = Merge(out, ResponseItems(batch))
                    /\ i' = i + batch_size
                    /\ UNCHANGED <<pc, exc>>
    /\ UNCHANGED <<op, tokens, by_market, token_ids, batch_size, svc,
                   body_kind, token_id, response, page_json, ret, first,
                   rows_read, client, pager>>

\* get_best_prices returns out to a direct caller.
Return_get_best_prices ==
    /\ pc = "prices"
    /\ op = "get_best_prices"
    /\ i >= Len(token_ids)
    /\ ret' = Value(out)
    /\ pc' = "returned"
    /\ UNCHANGED <<op, tokens, by_market, token_ids, batch_size, i, out,
                   requests, svc, body_kind, token_id, response, page_json,
                   exc, first, rows_read, http, client, pager>>

\* The caller asks again for the same token ids with another batch size.
Again_get_best_prices ==
    /\ pc = "returned"
    /\ op = "get_best_prices"
    /\ first = NoValue
    /\ \E bs \in (1..MaxBatch) \cup {DefaultBatchSize} :
        /\ bs # batch_size
        /\ batch_size' = bs
    /\ first' = ret
    /\ ret' = NoValue
    /\ i' = 0
    /\ out' = EmptyMap
    /\ requests' = << >>
    /\ http' = << >>
    /\ pc' = "prices"
    /\ UNCHANGED <<op, tokens, by_market, token_ids, svc, body_kind, token_id,
                   response, page_json, exc, rows_read, client, pager>>

\* get_best_prices returns to sum_yes_by_market, which sums, ranks and
\* returns.
Aggregate ==
    /\ pc = "prices"
    /\ op = "sum_yes_by_market"
    /\ i >= Len(token_ids)
    /\ IF AggregateRaises(by_market, out)
       THEN /\ pc' = "raised"
            /\ exc' = "AttributeError"
            /\ UNCHANGED ret
       ELSE /\ pc' = "returned"
            /\ ret' = Value(SortResults(Results(by_market, out)))
            /\ UNCHANGED exc
    /\ UNCHANGED <<op, tokens, by_market, token_ids, batch_size, i, out,
                   requests, svc, body_kind, token_id, response, page_json,
                   first, rows_read, http, client, pager>>

\* get_book(token_id): GET /book is sent.
Call_get_book ==
    /\ pc = "idle"
    /\ \E tid \in BookTokenIds : token_id' = tid
    /\ op' = "get_book"
    /\ http' = <<Request("/book", Seconds(RequestTimeout))>>
    /\ pc' = "book"
    /\ UNCHANGED <<tokens, by_market, token_ids, batch_size, i, out, requests,
                   svc, body_kind, response, page_json, ret, exc, first,
                   rows_read, client, pager>>

\* get_book, lines 113-116: the response arrives.
BookResponse ==
    /\ pc = "book"
    /\ \E status \in BookStatuses : \E body \in BookBodies :
        /\ response' = [status_code |-> status, body |-> body]
        /\ IF status = 404
           THEN /\ ret' = Value(NotFound(token_id))
                /\ pc' = "returned"
                /\ UNCHANGED exc
           ELSE IF status >= 400
           THEN /\ exc' = "HTTPError"
                /\ pc' = "raised"
                /\ UNCHANGED ret
           ELSE /\ ret' = Value(body)
                /\ pc' = "returned"
                /\ UNCHANGED exc
    /\ UNCHANGED <<op, tokens, by_market, token_ids, batch_size, i, out,
                   requests, svc, body_kind, token_id, page_json, first,
                   rows_read, http, client, pager>>

\* flatten_tokens_from_simplified(page_json): no request, one step.
Call_flatten_tokens_from_simplified ==
    /\ pc = "idle"
    /\ \E page \in Pages :
        /\ page_json' = page
        /\ ret' = Value(flatten_tokens_from_simplified(page))
    /\ op' = "flatten_tokens_from_simplified"
    /\ pc' = "returned"
    /\ UNCHANGED <<tokens, by_market, token_ids, batch_size, i, out, requests,
                   svc, body_kind, token_id, response, exc, first,
                   rows_read, http, client, pager>>

\* What a request that is sent and never answered does to its caller: with
\* a timeout the request raises Timeout, without one the caller waits on.
Unanswered(timeout) == IF timeout.set THEN "raised" ELSE "blocked"

\* list_markets_gamma(): GET /markets of Gamma is sent.
Call_list_markets_gamma ==
    /\ pc = "idle"
    /\ op' = "list_markets_gamma"
    /\ http' = <<Request("/markets", Seconds(RequestTimeout))>>
    /\ pc' = "fetch"
    /\ UNCHANGED <<quotes, ret, exc, client, pager>>

\* get_trades_dataapi(): GET /trades of the Data-API is sent.
Call_get_trades_dataapi ==
    /\ pc = "idle"
    /\ op' = "get_trades_dataapi"
    /\ http' = <<Request("/trades", Seconds(RequestTimeout))>>
    /\ pc' = "fetch"
    /\ UNCHANGED <<quotes, ret, exc, client, pager>>

\* list_markets_gamma and get_trades_dataapi after the request:
\* r.raise_for_status(); return r.json().
FetchResponse ==
    /\ pc = "fetch"
    /\ \E o \in Outcomes :
        CASE o = "ok" ->
                /\ ret' = Value(MarketsBody)
                /\ pc' = "returned"
                /\ UNCHANGED exc
          [] o = "error" ->
                /\ exc' = "HTTPError"
                /\ pc' = "raised"
                /\ UNCHANGED ret
          [] o = "silent" ->
                /\ pc' = Unanswered(http[Len(http)].timeout)
                /\ exc' = IF http[Len(http)].timeout.set THEN "Timeout" ELSE exc
                /\ UNCHANGED ret
    /\ UNCHANGED <<op, quotes, http, client, pager>>

\* PolymarketScanner.get_active_markets(): GET /markets is sent.
Call_get_active_markets ==
    /\ pc = "idle"
    /\ op' = "get_active_markets"
    /\ http' = <<Request("/markets", NoTimeout)>>
    /\ pc' = "scan"
    /\ UNCHANGED <<quotes, ret, exc, client, pager>>

\* PolymarketScanner.get_market_history(): GET /prices-history is sent.
Call_get_market_history ==
    /\ pc = "idle"
    /\ op' = "get_market_history"
    /\ http' = <<Request("/prices-history", NoTimeout)>>
    /\ pc' = "scan"
    /\ UNCHANGED <<quotes, ret, exc, client, pager>>

\* The methods of PolymarketScanner after the request: the body is
\* returned, and a RequestException is caught and [] returned.
ScannerResponse ==
    /\ pc = "scan"
    /\ \E o \in Outcomes :
        CASE o = "ok" ->
                /\ ret' = Value(MarketsBody)
                /\ pc' = "returned"
          [] o = "error" ->
                /\ ret' = Value(List)
                /\ pc' = "returned"
          [] o = "silent" ->
                IF http[Len(http)].timeout.set
                THEN /\ ret' = Value(List)
                     /\ pc' = "returned"
                ELSE /\ pc' = "blocked"
                     /\ UNCHANGED ret
    /\ UNCHANGED <<op, quotes, http, exc, client, pager>>

\* with PolymarketAPI() as api: __init__ opens the session, __enter__
\* returns the client, the block starts.
Enter_PolymarketAPI ==
    /\ pc = "idle"
    /\ op' = "PolymarketAPI"
    /\ session' = "open"
    /\ closes' = 0
    /\ calls' = << >>
    /\ pc' = "block"
    /\ UNCHANGED <<quotes, http, ret, exc, pager>>

\* Inside the block: api.get_markets() or api.get_market() sends its GET
\* through the session.
Call_PolymarketAPI ==
    /\ pc = "block"
    /\ Len(calls) < MaxCalls
    /\ \E f \in ApiMethods :
        /\ calls' = Append(calls, f)
        /\ http' = Append(http, Request(ApiUrl(f), NoTimeout))
    /\ pc' = "api"
    /\ UNCHANGED <<op, quotes, ret, exc, session, closes, pager>>

\* get_markets and get_market after the request: response.raise_for_status();
\* return response.json().  The block catches what the call raises, as main
\* of example.py does, or lets it out.
PolymarketAPIResponse ==
    /\ pc = "api"
    /\ \E o \in Outcomes : \E caught \in BOOLEAN :
        CASE o = "ok" ->
                /\ ~caught
                /\ ret' = Value(MarketsBody)
                /\ pc' = "block"
                /\ UNCHANGED exc
          [] o = "error" ->
                /\ pc' = IF caught THEN "block" ELSE "exit"
                /\ exc' = IF caught THEN exc ELSE "HTTPError"
                /\ UNCHANGED ret
          [] o = "silent" ->
                /\ pc' = IF ~http[Len(http)].timeout.set THEN "blocked"
                          ELSE IF caught THEN "block" ELSE "exit"
                /\ exc' = IF http[Len(http)].timeout.set /\ ~caught
                          THEN "Timeout" ELSE exc
                /\ UNCHANGED ret
    /\ UNCHANGED <<op, quotes, http, client, pager>>

\* The block ends without an exception.
Leave_PolymarketAPI ==
    /\ pc = "block"
    /\ pc' = "exit"
    /\ UNCHANGED <<op, quotes, http, ret, exc, client, pager>>

\* __exit__ that closes the session only when the block raised nothing.
ExitClosingAfterSuccessOnly ==
    /\ pc = "exit"
    /\ closes' = IF exc = "none" THEN closes + 1 ELSE closes
    /\ session' = IF exc = "none" THEN "closed" ELSE session
    /\ pc' = IF exc = "none" THEN "returned" ELSE "raised"
    /\ UNCHANGED <<op, quotes, http, ret, exc, calls, pager>>

\* __exit__: self.close() closes the session; nothing is returned, so an
\* exception of the block goes on to the caller.
Exit_PolymarketAPI ==
    /\ pc = "exit"
    /\ closes' = closes + 1
    /\ session' = "closed"
    /\ pc' = IF exc = "none" THEN "returned" ELSE "raised"
    /\ UNCHANGED <<op, quotes, http, ret, exc, calls, pager>>

\* clob_simplified_pages(max_pages) is iterated.
Call_clob_simplified_pages ==
    /\ pc = "idle"
    /\ \E n \in 0..MaxPages : max_pages' = n
    /\ op' = "clob_simplified_pages"
    /\ cursor' = None
    /\ pages' = << >>
    /\ http' = << >>
    /\ pc' = "pages"
    /\ UNCHANGED <<quotes, ret, exc, client>>

\* The loop yielding each page and going on whatever its next_cursor is.
NextPageWithoutBreak ==
    /\ pc = "pages"
    /\ Len(http) < max_pages
    /\ http' = Append(http, [url |-> "/simplified-markets",
                             params |-> CursorParams(cursor),
                             timeout |-> Seconds(RequestTimeout)])
    /\ \E o \in Outcomes :
        IF o = "ok"
        THEN \E c \in Cursors :
                /\ pages' = Append(pages, Page(c))
                /\ cursor' = Get(Page(c).m, "next_cursor")
                /\ UNCHANGED <<pc, exc>>
        ELSE /\ exc' = IF o = "error" THEN "HTTPError" ELSE "Timeout"
             /\ pc' = "raised"
             /\ UNCHANGED <<cursor, pages>>
    /\ UNCHANGED <<op, quotes, ret, client, max_pages>>

\* One turn of the loop of clob_simplified_pages: list_simplified_markets
\* (cursor) sends GET /simplified-markets and raises on a failure; the page
\* is yielded, its next_cursor kept, and the loop left when that is empty.
NextPage ==
    /\ pc = "pages"
    /\ Len(http) < max_pages
    /\ http' = Append(http, [url |-> "/simplified-markets",
                             params |-> CursorParams(cursor),
                             timeout |-> Seconds(RequestTimeout)])
    /\ \E o \in Outcomes :
        IF o = "ok"
        THEN \E c \in Cursors :
                /\ pages' = Append(pages, Page(c))
                /\ cursor' = Get(Page(c).m, "next_cursor")
                /\ pc' = IF Truthy(Get(Page(c).m, "next_cursor"))
                          THEN "pages" ELSE "returned"
                /\ UNCHANGED exc
        ELSE /\ exc' = IF o = "error" THEN "HTTPError" ELSE "Timeout"
             /\ pc' = "raised"
             /\ UNCHANGED <<cursor, pages>>
    /\ UNCHANGED <<op, quotes, ret, client, max_pages>>

\* for _ in range(max_pages) is exhausted: the iteration ends.
EndPages ==
    /\ pc = "pages"
    /\ Len(http) >= max_pages
    /\ pc' = "returned"
    /\ UNCHANGED <<op, quotes, http, ret, exc, client, pager>>

Next ==
    \/ Call_sum_yes_by_market
    \/ Group_sum_yes_by_market
    \/ Price_sum_yes_by_market
    \/ Call_get_best_prices
    \/ PricesRequest
    \/ Return_get_best_prices
    \/ Again_get_best_prices
    \/ Aggregate
    \/ Call_get_book
    \/ BookResponse
    \/ Call_flatten_tokens_from_simplified
    \/ Call_list_markets_gamma
    \/ Call_get_trades_dataapi
    \/ FetchResponse
    \/ Call_get_active_markets
    \/ Call_get_market_history
    \/ ScannerResponse
    \/ Enter_PolymarketAPI
    \/ Call_PolymarketAPI
    \/ PolymarketAPIResponse
    \/ Leave_PolymarketAPI
    \/ Exit_PolymarketAPI
    \/ Call_clob_simplified_pages
    \/ NextPage
    \/ EndPages

Spec == Init /\ [][Next]_vars

(***************************************************************************)
(* What the claims speak of, stated from the inputs of a run: the rows     *)
(* given to sum_yes_by_market and the answers of the price service.        *)
(***************************************************************************)
SumReturned == op = "sum_yes_by_market" /\ pc = "returned"

\* A row with a market id, a token id (neither null nor empty) and
\* closed = false.
KeptRow(t) ==
    /\ t.condition_id \notin {None, Str("")}
    /\ t.token_id \notin {None, Str("")}
    /\ t.closed = Bool(FALSE)

\* A row with a non-null token id and closed = false.
OpenRowWithId(t) == t.token_id # None /\ t.closed = Bool(FALSE)

\* The positions of the kept rows of market m.
KeptOf(m) ==
    { j \in 1..Len(tokens) : KeptRow(tokens[j]) /\ tokens[j].condition_id = Str(m) }

\* The BUY quote the service gives for a token id, when it is a number.
HasNumber(tid) ==
    /\ body_kind = "dict"
    /\ svc[tid].t = "dict"
    /\ "BUY" \in DOMAIN svc[tid].m
    /\ svc[tid].m["BUY"] \in {Str("0.45"), Str("0.52"), Str("inf")}

HasFiniteNumber(tid) ==
    HasNumber(tid) /\ svc[tid].m["BUY"] \in {Str("0.45"), Str("0.52")}

Hundredths(tid) == IF svc[tid].m["BUY"] = Str("0.45") THEN 45 ELSE 52

RECURSIVE TotalOver(_)
\* The sum of the finite quotes of the rows at the positions js.
TotalOver(js) ==
    IF js = {} THEN 0
    ELSE LET j == CHOOSE x \in js : TRUE
             tid == tokens[j].token_id.s
         IN (IF HasFiniteNumber(tid) THEN Hundredths(tid) ELSE 0)
                + TotalOver(js \ {j})

(***************************************************************************)
(* C1: in sum_yes_by_market, a market with at least one finite BUY quote   *)
(* among its surviving tokens is reported with the arithmetic sum of       *)
(* exactly those finite quotes; missing, null and non-numeric quotes add   *)
(* nothing, and no quote of another market's token is added.               *)
(***************************************************************************)
C1_SumOfFiniteQuotes ==
    SumReturned =>
        \A k \in 1..Len(ret.v) :
            LET js == KeptOf(ret.v[k][1]) IN
            (\E j \in js : HasFiniteNumber(tokens[j].token_id.s))
                => ret.v[k][3] = Num(TotalOver(js))

\* The same with no infinite quote among the market's tokens: this much the
\* code does.
C1_SumWithoutInfiniteQuotes ==
    SumReturned =>
        \A k \in 1..Len(ret.v) :
            LET js == KeptOf(ret.v[k][1]) IN
            /\ \E j \in js : HasFiniteNumber(tokens[j].token_id.s)
            /\ \A j \in js : svc[tokens[j].token_id.s] # Sides("BUY" :> Str("inf"))
            => ret.v[k][3] = Num(TotalOver(js))

(***************************************************************************)
(* C2: sum_yes_by_market groups strictly by market id.  As claimed: the    *)
(* token ids of all groups together are the input token ids that are       *)
(* non-null and whose row has closed = false, and no token id is in more   *)
(* than one group.                                                         *)
(***************************************************************************)
GroupedIds == UNION { Range(by_market[j].tids) : j \in 1..Len(by_market) }

\* sum_yes_by_market has read all rows.
Grouped == op = "sum_yes_by_market" /\ pc # "group"

C2_GroupsHoldOpenRowsWithId ==
    Grouped =>
        /\ GroupedIds =
             { tokens[j].token_id.s :
                 j \in { x \in 1..Len(tokens) : OpenRowWithId(tokens[x]) } }
        /\ \A a, b \in 1..Len(by_market) :
             a # b => Range(by_market[a].tids) \cap Range(by_market[b].tids) = {}

(***************************************************************************)
(* C2, amended: the token ids of all groups together are the token ids of  *)
(* the rows with a non-empty market id, a non-empty token id and           *)
(* closed = false; there is one group per market id, and the group of a    *)
(* market holds the token ids of exactly that market's kept rows, in row   *)
(* order, so a token id is in two groups only when kept rows list it under *)
(* two market ids.                                                         *)
(***************************************************************************)
\* The token ids of the rows at the positions js of ts, in row order.
IdsAt(ts, js) ==
    LET at == SelectSeq([j \in 1..Len(ts) |-> j], LAMBDA j : j \in js) IN
    [k \in 1..Len(at) |-> ts[at[k]].token_id.s]

C2_GroupsHoldKeptRows ==
    Grouped =>
        /\ GroupedIds =
             { tokens[j].token_id.s :
                 j \in { x \in 1..Len(tokens) : KeptRow(tokens[x]) } }
        /\ \A a, b \in 1..Len(by_market) :
             a # b => by_market[a].cond # by_market[b].cond
        /\ \A a \in 1..Len(by_market) :
             by_market[a].tids = IdsAt(tokens, KeptOf(by_market[a].cond))

\* A run with a row that has a token id and closed = false but no market id,
\* and a token id that kept rows list under two markets.
C2_Witness ==
    /\ Grouped
    /\ \E j \in 1..Len(tokens) :
         OpenRowWithId(tokens[j]) /\ tokens[j].condition_id = None
    /\ \E a, b \in 1..Len(by_market) :
         a # b /\ Range(by_market[a].tids) \cap Range(by_market[b].tids) # {}

(***************************************************************************)
(* C3: the list sum_yes_by_market returns is a permutation of the          *)
(* per-market results, ascending by sum with a not-a-number sum ranked as  *)
(* +infinity, and stable.  As claimed: two markets with equal sort keys    *)
(* keep the order in which their market ids first appeared in the input    *)
(* rows.                                                                   *)
(***************************************************************************)
\* Sum a ranks strictly below sum b, with nan ranked as +infinity.
RanksBelow(a, b) == a.k = "num" /\ (b.k # "num" \/ a.n < b.n)

IsPermutation(xs, ys) ==
    /\ Len(xs) = Len(ys)
    /\ \A x \in Range(xs) :
         Cardinality({ j \in 1..Len(xs) : xs[j] = x })
            = Cardinality({ j \in 1..Len(ys) : ys[j] = x })

Ascending(rs) ==
    \A a, b \in 1..Len(rs) : a < b => ~RanksBelow(rs[b][3], rs[a][3])

Tied(x, y) == ~RanksBelow(x[3], y[3]) /\ ~RanksBelow(y[3], x[3])

Least(S) == CHOOSE x \in S : \A y \in S : x <= y

\* The first input row that names market m.
FirstRow(m) ==
    Least({ j \in 1..Len(tokens) : tokens[j].condition_id = Str(m) })

\* The first kept input row of market m.
FirstKeptRow(m) == Least(KeptOf(m))

C3_RankedStableByFirstRow ==
    SumReturned =>
        /\ IsPermutation(ret.v, Results(by_market, out))
        /\ Ascending(ret.v)
        /\ \A a, b \in 1..Len(ret.v) :
             (a < b /\ Tied(ret.v[a], ret.v[b]))
                => FirstRow(ret.v[a][1]) < FirstRow(ret.v[b][1])

(***************************************************************************)
(* C3, amended: the returned list is a permutation of the per-market       *)
(* results, ascending by sum with not-a-number ranked as +infinity, and    *)
(* two markets with equal sort keys keep the order in which their market   *)
(* ids first appeared among the rows that pass the filter (non-empty       *)
(* market id, non-empty token id, not closed).                             *)
(***************************************************************************)
C3_RankedStableByFirstKeptRow ==
    SumReturned =>
        /\ IsPermutation(ret.v, Results(by_market, out))
        /\ Ascending(ret.v)
        /\ \A a, b \in 1..Len(ret.v) :
             (a < b /\ Tied(ret.v[a], ret.v[b]))
                => FirstKeptRow(ret.v[a][1]) < FirstKeptRow(ret.v[b][1])

\* Three markets returned, the last two tied, the first moved ahead of a
\* market that came before it in the input.
C3_Witness ==
    /\ SumReturned
    /\ Len(ret.v) = 3
    /\ Tied(ret.v[2], ret.v[3])
    /\ RanksBelow(ret.v[1][3], ret.v[2][3])
    /\ FirstKeptRow(ret.v[1][1]) > FirstKeptRow(ret.v[2][1])

(***************************************************************************)
(* C4: a market all of whose surviving tokens have a missing, null or      *)
(* non-numeric BUY quote gets a not-a-number sum, and its result comes     *)
(* after the result of every market with a finite sum.                     *)
(***************************************************************************)
Unquoted(m) == \A j \in KeptOf(m) : ~HasNumber(tokens[j].token_id.s)

C4_UnquotedMarketIsNaNAndLast ==
    SumReturned =>
        \A a \in 1..Len(ret.v) :
            Unquoted(ret.v[a][1]) =>
                /\ ret.v[a][3] = NaN
                /\ \A b \in 1..Len(ret.v) : ret.v[b][3].k = "num" => b < a

\* An unquoted market that came first in the input, returned after a market
\* with a finite sum.
C4_Witness ==
    /\ SumReturned
    /\ Len(ret.v) >= 2
    /\ Unquoted(by_market[1].cond)
    /\ ret.v[1][3].k = "num"
    /\ ret.v[Len(ret.v)][1] = by_market[1].cond

(***************************************************************************)
(* C5: sum_yes_by_market returns exactly one tuple (market_id,             *)
(* outcome_count, sum_best_ask) per market id with a surviving row and     *)
(* none for another market; outcome_count is the number of the market's    *)
(* surviving rows, the unquoted tokens counted too.  As claimed, a row     *)
(* survives when its token id is non-null and it is not closed.  Rows      *)
(* T1, T2 of M1 quoted 0.45 and 0.52 give [(M1, 2, 0.97)].                 *)
(***************************************************************************)
TuplesOf(m) == { k \in 1..Len(ret.v) : ret.v[k][1] = m }

\* The market ids the rows name.
NamedMarkets ==
    { tokens[j].condition_id.s :
        j \in { x \in 1..Len(tokens) : tokens[x].condition_id # None } }

OpenWithIdOf(m) ==
    { j \in 1..Len(tokens) :
        OpenRowWithId(tokens[j]) /\ tokens[j].condition_id = Str(m) }

ExampleRows ==
    << Row(Str("M1"), Str("T1"), Bool(FALSE)),
       Row(Str("M1"), Str("T2"), Bool(FALSE)) >>

ExampleHolds ==
    ( /\ tokens = ExampleRows
      /\ body_kind = "dict"
      /\ svc["T1"] = Sides("BUY" :> Str("0.45"))
      /\ svc["T2"] = Sides("BUY" :> Str("0.52")) )
        => ret.v = << <<"M1", 2, Num(97)>> >>

C5_OneTuplePerMarketWithOpenRow ==
    SumReturned =>
        /\ \A k \in 1..Len(ret.v) : ret.v[k][1] \in NamedMarkets
        /\ \A m \in NamedMarkets :
             IF OpenWithIdOf(m) = {} THEN TuplesOf(m) = {}
             ELSE /\ Cardinality(TuplesOf(m)) = 1
                  /\ \A k \in TuplesOf(m) :
                       ret.v[k][2] = Cardinality(OpenWithIdOf(m))
        /\ ExampleHolds

(***************************************************************************)
(* C5, amended: the same, where a row survives when its market id and its  *)
(* token id are both non-empty (not only non-null) and it is not closed.   *)
(***************************************************************************)
C5_OneTuplePerMarketWithKeptRow ==
    SumReturned =>
        /\ \A k \in 1..Len(ret.v) : ret.v[k][1] \in NamedMarkets \ {""}
        /\ \A m \in NamedMarkets :
             IF KeptOf(m) = {} THEN TuplesOf(m) = {}
             ELSE /\ Cardinality(TuplesOf(m)) = 1
                  /\ \A k \in TuplesOf(m) :
                       ret.v[k][2] = Cardinality(KeptOf(m))
        /\ ExampleHolds

\* The run of the example.
C5_Witness ==
    /\ SumReturned
    /\ tokens = ExampleRows
    /\ ret.v = << <<"M1", 2, Num(97)>> >>

(***************************************************************************)
(* C6: when every /prices request of a run succeeds at the transport       *)
(* level, sum_yes_by_market does not raise and returns a result for every  *)
(* market group, whatever the price data: an absent token id, an entry     *)
(* that is null or no mapping, a missing BUY key, a null or non-numeric    *)
(* BUY value only make that token's quote not-a-number.                    *)
(***************************************************************************)
AllRequestsSucceeded ==
    \A j \in 1..Len(requests) : requests[j].status < 400

C6_MalformedPricesNeverRaise ==
    (op = "sum_yes_by_market" /\ AllRequestsSucceeded) =>
        /\ pc # "raised"
        /\ pc = "returned" =>
             /\ Len(ret.v) = Len(by_market)
             /\ \A k \in 1..Len(ret.v) :
                  LET js == KeptOf(ret.v[k][1]) IN
                  (\A j \in js : ~HasNumber(tokens[j].token_id.s))
                     <=> ret.v[k][3] = NaN

(***************************************************************************)
(* C7: when a batch request to /prices fails with an HTTP error status,    *)
(* the failure propagates out of get_best_prices and out of                *)
(* sum_yes_by_market: nothing is returned, neither a result list nor a     *)
(* partly merged mapping; the failed batch is not requested again and no   *)
(* later batch is requested.                                               *)
(***************************************************************************)
FailedRequests == { j \in 1..Len(requests) : requests[j].status >= 400 }

C7_HTTPErrorEndsTheRun ==
    (op \in {"get_best_prices", "sum_yes_by_market"} /\ FailedRequests # {}) =>
        /\ pc = "raised"
        /\ exc = "HTTPError"
        /\ ret = NoValue
        /\ FailedRequests = {Len(requests)}
        /\ \A j \in 1..Len(requests) :
             requests[j].batch
                = SubSeq(token_ids, (j - 1) * batch_size + 1,
                         IF j * batch_size < Len(token_ids)
                         THEN j * batch_size ELSE Len(token_ids))

\* The second batch of a run failed after the first had been merged.
C7_Witness ==
    /\ op = "get_best_prices"
    /\ pc = "raised"
    /\ Len(requests) = 2
    /\ requests[2].status = 500
    /\ DOMAIN out # {}
    /\ Len(token_ids) > 2 * batch_size

(***************************************************************************)
(* C8: get_best_prices is lossless and independent of the batching: for    *)
(* one list of token ids and two batch sizes, with a service that answers  *)
(* each token id the same way however the ids are grouped, the two merged  *)
(* mappings are identical, and the merged mapping holds every key of       *)
(* every batch response.                                                   *)
(***************************************************************************)
\* The keys of the response to a batch.
AnsweredIn(batch) ==
    { t \in Range(batch) : body_kind = "dict" /\ svc[t] # Absent }

C8_BatchSizeDoesNotMatter ==
    (op = "get_best_prices" /\ pc = "returned") =>
        /\ first # NoValue => ret = first
        /\ \A j \in 1..Len(requests) :
             \A t \in AnsweredIn(requests[j].batch) :
                t \in DOMAIN ret.v /\ ret.v[t] = svc[t]

\* Two calls returned, the later one made of several requests and with
\* entries from more than one of them.
C8_Witness ==
    /\ op = "get_best_prices"
    /\ pc = "returned"
    /\ first # NoValue
    /\ Len(requests) >= 2
    /\ AnsweredIn(requests[1].batch) # {}
    /\ AnsweredIn(requests[2].batch) \ AnsweredIn(requests[1].batch) # {}

(***************************************************************************)
(* C9: get_book returns {error: "not_found", token_id: <the requested id>} *)
(* and does not raise when the service answers 404; it raises on any other *)
(* HTTP error status; on success it returns the response body.             *)
(***************************************************************************)
C9_BookNotFoundIsASentinel ==
    (op = "get_book" /\ response # NoValue) =>
        IF response.status_code = 404
        THEN /\ pc = "returned"
             /\ exc = "none"
             /\ ret = Value(Dict([error |-> Str("not_found"),
                                  token_id |-> Str(token_id)]))
        ELSE IF response.status_code >= 400
        THEN pc = "raised" /\ exc = "HTTPError" /\ ret = NoValue
        ELSE pc = "returned" /\ exc = "none" /\ ret = Value(response.body)

\* A 404 for an unknown token id.
C9_Witness ==
    /\ op = "get_book"
    /\ token_id = "unknown"
    /\ response # NoValue
    /\ response.status_code = 404
    /\ pc = "returned"

(***************************************************************************)
(* C10: flatten_tokens_from_simplified emits one row per (market, token)   *)
(* pair of the page, in page order: as many rows as the markets of the     *)
(* page have tokens; every row carries its market's id and its market's    *)
(* active and closed flags as booleans; a token with a null id still       *)
(* yields a row, with a null token_id.  One market of 2 tokens gives 2     *)
(* rows with the same market id and closed flag.                           *)
(***************************************************************************)
PageData == IF "data" \in DOMAIN page_json THEN page_json["data"].items ELSE << >>

\* The number of tokens of market m.
NumTokens(m) ==
    IF "tokens" \in DOMAIN m /\ m["tokens"].t = "list"
    THEN Len(m["tokens"].items) ELSE 0

RECURSIVE TokensBefore(_)
\* The number of tokens of the first a markets of the page.
TokensBefore(a) ==
    IF a = 0 THEN 0 ELSE TokensBefore(a - 1) + NumTokens(PageData[a])

Field(m, key) == IF key \in DOMAIN m THEN m[key] ELSE None

C10_OneRowPerMarketToken ==
    (op = "flatten_tokens_from_simplified" /\ pc = "returned") =>
        /\ Len(ret.v) = TokensBefore(Len(PageData))
        /\ \A a \in 1..Len(PageData) : \A b \in 1..NumTokens(PageData[a]) :
             LET row == ret.v[TokensBefore(a - 1) + b]
                 m   == PageData[a]
                 t   == m["tokens"].items[b]
             IN /\ row.condition_id = Field(m, "condition_id")
                /\ row.active \in {Bool(TRUE), Bool(FALSE)}
                /\ row.closed \in {Bool(TRUE), Bool(FALSE)}
                /\ row.active = Bool(TRUE) <=> Truthy(Field(m, "active"))
                /\ row.closed = Bool(TRUE) <=> Truthy(Field(m, "closed"))
                /\ row.token_id = Field(t, "token_id")
        /\ (Len(PageData) = 1 /\ NumTokens(PageData[1]) = 2) =>
             /\ Len(ret.v) = 2
             /\ ret.v[1].condition_id = ret.v[2].condition_id
             /\ ret.v[1].closed = ret.v[2].closed

\* A page of two markets, the first with a token, the second with two
\* tokens of which the first has a null id.
C10_Witness ==
    /\ op = "flatten_tokens_from_simplified"
    /\ pc = "returned"
    /\ Len(PageData) = 2
    /\ NumTokens(PageData[1]) = 1
    /\ NumTokens(PageData[2]) = 2
    /\ Len(ret.v) = 3
    /\ ret.v[2].token_id = None
    /\ ret.v[3].token_id = Str("T1")


(***************************************************************************)
(* C11: the token ids sum_yes_by_market sends to /prices.                  *)
(***************************************************************************)
RECURSIVE Sent(_)
\* The token ids of the requests rs, one after another.
Sent(rs) == IF rs = << >> THEN << >> ELSE rs[1].batch \o Sent(Tail(rs))

\* How many times the id tid occurs in the list of ids s.
Times(tid, s) == Cardinality({ j \in DOMAIN s : s[j] = tid })

\* How many kept rows of the argument carry the token id tid.
KeptTimes(tid) ==
    Cardinality({ j \in DOMAIN tokens :
                    KeptRow(tokens[j]) /\ tokens[j].token_id = Str(tid) })

NumKept == Cardinality({ j \in DOMAIN tokens : KeptRow(tokens[j]) })

SumEnded == op = "sum_yes_by_market" /\ pc \in {"returned", "raised"}

\* C11 as stated: at every moment of a run of sum_yes_by_market the ids sent
\* to /prices are token ids (never null or empty) sent no more often than
\* kept rows carry them, so none comes from a closed row or a row without
\* token id; and when the run has ended, the ids sent over all its requests
\* are exactly the ids of the kept rows, each as often as kept rows carry it.
C11_RequestsCarryExactlyTheSurvivingIds ==
    op = "sum_yes_by_market" =>
        /\ Range(Sent(requests)) \subseteq TokenIds
        /\ \A tid \in TokenIds : Times(tid, Sent(requests)) <= KeptTimes(tid)
        /\ SumEnded =>
            \A tid \in TokenIds : Times(tid, Sent(requests)) = KeptTimes(tid)

\* C11, amended: the ids sent are token ids of kept rows only, at every
\* moment; a run that ended without a failed request has sent exactly the ids
\* of the kept rows; a run ended by a failed request has sent the ids of the
\* batches up to the failed one and of no later batch.
C11_RequestsCarryOnlySurvivingIds ==
    op = "sum_yes_by_market" =>
        /\ Range(Sent(requests)) \subseteq TokenIds
        /\ \A tid \in TokenIds : Times(tid, Sent(requests)) <= KeptTimes(tid)
        /\ (SumEnded /\ FailedRequests = {}) =>
            \A tid \in TokenIds : Times(tid, Sent(requests)) = KeptTimes(tid)
        /\ FailedRequests # {} =>
            Len(Sent(requests)) = Min(Len(requests) * DefaultBatchSize, NumKept)

\* A run over rows with a closed row whose surviving ids went out in two
\* requests, both answered, and that returned.
C11_Witness ==
    /\ SumReturned
    /\ Len(requests) = 2
    /\ \E j \in DOMAIN tokens : tokens[j].closed = Bool(TRUE)
    /\ \E tid \in TokenIds : KeptTimes(tid) > 0 /\ Times(tid, requests[2].batch) > 0


(***************************************************************************)
(* C12: every HTTP request of a fetch operation (list_markets_gamma,       *)
(* list_simplified_markets, get_book, get_best_prices, get_trades_dataapi, *)
(* the get_markets and get_market of PolymarketAPI, the get_active_markets *)
(* and get_market_history of PolymarketScanner) carries a fixed finite     *)
(* timeout, so no caller is left waiting without limit for an answer.      *)
(***************************************************************************)
FetchOperations ==
    {"list_markets_gamma", "clob_simplified_pages", "get_book",
     "get_best_prices", "sum_yes_by_market", "get_trades_dataapi",
     "PolymarketAPI", "get_active_markets", "get_market_history"}

C12_EveryRequestHasATimeout ==
    op \in FetchOperations =>
        /\ \A j \in 1..Len(http) :
             http[j].timeout.set /\ http[j].timeout.s = RequestTimeout
        /\ pc # "blocked"


(***************************************************************************)
(* C13: a PolymarketAPI used as a context manager closes its session       *)
(* exactly once when the with-block is left, after any calls of            *)
(* get_markets and get_market in the block, whether the block ends         *)
(* normally or a call raises; and an exception raised in the block is not  *)
(* suppressed.  Stated over the states of a with-block: inside the block   *)
(* the session is open and was never closed; once the block is left the    *)
(* session is closed and was closed once; and the with statement ends by   *)
(* raising exactly when an exception left the block.                       *)
(***************************************************************************)
InBlock == pc \in {"block", "api", "exit", "blocked"}
BlockLeft == pc \in {"returned", "raised"}

C13_SessionClosedOnceOnEveryExit ==
    op = "PolymarketAPI" =>
        /\ InBlock \/ BlockLeft
        /\ InBlock => (session = "open" /\ closes = 0)
        /\ BlockLeft => (session = "closed" /\ closes = 1)
        /\ exc # "none" => pc \in {"exit", "raised"}
        /\ pc = "raised" => exc # "none"

\* A with-block left by the exception of its second call, the first having
\* returned; the session is closed.
C13_Witness ==
    /\ op = "PolymarketAPI"
    /\ pc = "raised"
    /\ exc = "HTTPError"
    /\ Len(calls) = 2
    /\ ret # NoValue
    /\ closes = 1


(***************************************************************************)
(* C14: clob_simplified_pages(max_pages) fetches its pages one after       *)
(* another.                                                                *)
(***************************************************************************)
Paging == op = "clob_simplified_pages"

\* The page has no next_cursor, or a null or empty one.
LastPage(page) ==
    \/ "next_cursor" \notin DOMAIN page.m
    \/ page.m["next_cursor"] \in {None, Str("")}

\* The requests and the pages so far: at most max_pages of each, one request
\* per page and one more only for a failed request, which raises and is the
\* last; the first request carries no cursor and each later one the
\* next_cursor of the page yielded just before it; every page but the last
\* has a non-empty next_cursor, and the iteration has ended when the last
\* page has none.
PagesInOrder ==
    /\ Len(http) <= max_pages
    /\ Len(pages) <= Len(http)
    /\ Len(http) <= Len(pages) + 1
    /\ Len(http) = Len(pages) + 1 <=> pc = "raised"
    /\ pc = "raised" => (exc \in {"HTTPError", "Timeout"} /\ ret = NoValue)
    /\ \A j \in 1..Len(http) :
         /\ http[j].url = "/simplified-markets"
         /\ IF j = 1 THEN http[j].params = EmptyMap
            ELSE /\ DOMAIN http[j].params = {"next_cursor"}
                 /\ http[j].params["next_cursor"] = pages[j - 1].m["next_cursor"]
    /\ \A j \in 1..Len(pages) :
         IF j < Len(pages) THEN ~LastPage(pages[j])
         ELSE LastPage(pages[j]) => pc = "returned"
    /\ pc = "returned" =>
         \/ Len(pages) = max_pages
         \/ (pages # << >> /\ LastPage(pages[Len(pages)]))

\* An iteration that has not ended can take its next step, whatever the
\* server does, and has requests left to spend.
PagesGoOn ==
    pc = "pages" => ENABLED (NextPage \/ EndPages)

\* Each step of an iteration either ends it or spends one of the max_pages
\* requests.
PagesStep ==
    (Paging /\ pc = "pages") =>
        \/ pc' \in {"returned", "raised"}
        \/ (pc' = "pages" /\ Len(http') = Len(http) + 1)

\* C14: at every moment of an iteration of clob_simplified_pages(max_pages)
\* the requests were sent one per page in order, the first without cursor and
\* each later one with the next_cursor of the page before it; at most
\* max_pages pages were yielded; no page follows a page whose next_cursor is
\* absent or empty; a failed request raised and ended the iteration; and the
\* iteration ends within max_pages steps for every answer of the server,
\* because it can always step and each step ends it or spends a request.
C14_PagesInOrderAndBounded ==
    /\ [](Paging => (PagesInOrder /\ PagesGoOn))
    /\ [][PagesStep]_vars

\* An iteration that ended at max_pages although the server gave the same
\* non-empty cursor in every page.
C14_Witness ==
    /\ Paging
    /\ pc = "returned"
    /\ max_pages = MaxPages
    /\ Len(pages) = MaxPages
    /\ \A j \in 1..Len(pages) : pages[j] = Page(Str("LTE="))

====
